---- MODULE Spec2Model ----
(***************************************************************************)
(* Model of src/app.py: a Streamlit script that loads the Iris dataset     *)
(* through a memoized loader, reads four selectbox widgets and redraws a   *)
(* histogram, a per-species scatter plot and a species detail table on     *)
(* every script run.  One script run is one atomic step: a session         *)
(* connecting, or a selectbox change, reruns the whole script.             *)
(***************************************************************************)
EXTENDS Integers, Sequences, FiniteSets, TLC

\* ---------------------------------------------------------------- bounds
\* datasets the application specification is explored on
MaxFeatures == 2
MaxRows == 2
MaxVal == 1
\* datasets and bin counts the histogram is applied to on its own
MaxHistRows == 3
MaxHistVal == 2
MaxBins == 3
\* datasets the category filter is applied to on its own
MaxFilterRows == 3

\* ------------------------------------------------------ program constants
\* bins=20 in ax_hist.hist
BinCount == 20
\* shape of the bundled dataset: 150 rows, 50 per class, 4 measurements
IrisRows == 150
IrisPerClass == 50
IrisFeatures == 4

NoValue == "<none>"

feature_names ==
    << "sepal length (cm)", "sepal width (cm)",
       "petal length (cm)", "petal width (cm)" >>

target_names == << "setosa", "versicolor", "virginica" >>

Range(s) == { s[i] : i \in DOMAIN s }

\* ------------------------------------------------------------- the dataset
\* What load_iris() hands back: data (rows of measurements), target (class
\* index per row), feature_names and target_names.
Bunch(d, t, nf) ==
    [ data |-> d, target |-> t,
      feature_names |-> SubSeq(feature_names, 1, nf),
      target_names |-> target_names ]

Datasets(nfs, ns, vals, targets) ==
    UNION { UNION { { Bunch(d, t, nf) : d \in [1..n -> [1..nf -> vals]],
                                        t \in [1..n -> targets] }
                    : n \in ns }
            : nf \in nfs }

\* The bundled dataset's shape: 150 rows in class order, 50 per class.  The
\* measurement values are not fixed by the script; they range over 0..MaxVal.
IrisShaped ==
    Bunch([i \in 1..IrisRows |-> [j \in 1..IrisFeatures |-> (i + j) % (MaxVal + 1)]],
          [i \in 1..IrisRows |-> (i - 1) \div IrisPerClass],
          IrisFeatures)

AppResources ==
    Datasets(1..MaxFeatures, 1..MaxRows, 0..MaxVal, 0..2) \cup {IrisShaped}

HistResources == Datasets({2}, 1..MaxHistRows, 0..MaxHistVal, {0})

FilterResources ==
    Datasets({1}, 1..MaxFilterRows, 0..1, 0..2) \cup {IrisShaped}

\* load_data(): the DataFrame built from the bunch, with the Species column
\* iris.target_names[iris.target] appended.
load_data(res) ==
    [ columns |-> res.feature_names \o << "Species" >>,
      dtypes  |-> [i \in 1..Len(res.feature_names) |-> "float64"] \o << "object" >>,
      rows    |-> [i \in 1..Len(res.data) |->
                     [ index   |-> i - 1,
                       num     |-> res.data[i],
                       Species |-> res.target_names[res.target[i] + 1] ]] ]

\* @st.cache_data: a call finds what an earlier call stored.
CacheLookupMiss(c) == << >>

CacheLookup(c) == c

\* ---------------------------------------------------------- column helpers
RECURSIVE NumericFrom(_, _)
NumericFrom(df, i) ==
    IF i > Len(df.columns) THEN << >>
    ELSE (IF df.dtypes[i] \in {"float64", "int64"} THEN << df.columns[i] >> ELSE << >>)
         \o NumericFrom(df, i + 1)

\* iris_data.select_dtypes(include=[np.number]).columns.tolist()
select_dtypes_number(df) == NumericFrom(df, 1)

ColumnIndex(df, name) == CHOOSE i \in DOMAIN df.columns : df.columns[i] = name

\* rows[name] for a numeric column
Column(rows, df, name) ==
    LET k == ColumnIndex(df, name)
    IN  [i \in 1..Len(rows) |-> rows[i].num[k]]

SpeciesColumn(df) == [i \in 1..Len(df.rows) |-> df.rows[i].Species]

\* Series.unique(): the distinct values in order of first appearance
Unique(s) ==
    LET First(v) == CHOOSE i \in 1..Len(s) : s[i] = v /\ \A j \in 1..(i - 1) : s[j] # v
        firsts == { First(v) : v \in Range(s) }
    IN  [k \in 1..Cardinality(firsts) |->
            s[CHOOSE i \in firsts : Cardinality({ j \in firsts : j <= i }) = k]]

\* iris_data[iris_data["Species"] == category]
FilterByCategory(df, category) ==
    SelectSeq(df.rows, LAMBDA r : r.Species = category)

\* ------------------------------------------------------------ the histogram
RECURSIVE SumSeq(_)
SumSeq(s) == IF s = << >> THEN 0 ELSE Head(s) + SumSeq(Tail(s))

SeqMin(s) == LET r == Range(s) IN CHOOSE v \in r : \A w \in r : v <= w
SeqMax(s) == LET r == Range(s) IN CHOOSE v \in r : \A w \in r : v >= w

\* The bin range, in half units so that the widening of a degenerate range by
\* 0.5 on each side stays integral: empty data gets (0, 1), a single distinct
\* value v gets (v - 0.5, v + 0.5), anything else (min, max).
FirstEdge2(col) ==
    IF Len(col) = 0 THEN 0
    ELSE IF SeqMin(col) = SeqMax(col) THEN 2 * SeqMin(col) - 1
    ELSE 2 * SeqMin(col)

LastEdge2(col) ==
    IF Len(col) = 0 THEN 2
    ELSE IF SeqMin(col) = SeqMax(col) THEN 2 * SeqMax(col) + 1
    ELSE 2 * SeqMax(col)

\* A last bin that is half-open like the others: a value on the last edge
\* gets the index one past the last bin.
BinIndexHalfOpen(v, first2, last2, nbins) ==
    ((2 * v - first2) * nbins) \div (last2 - first2)

\* Zero-based bin of value v among nbins equal-width bins over the range; the
\* last bin is closed, so a value on the last edge belongs to bin nbins - 1.
BinIndex(v, first2, last2, nbins) ==
    LET raw == ((2 * v - first2) * nbins) \div (last2 - first2)
    IN  IF raw = nbins THEN nbins - 1 ELSE raw

\* ax_hist.hist(column, bins=nbins): the per-bin counts
Histogram(col, nbins) ==
    LET first2 == FirstEdge2(col)
        last2 == LastEdge2(col)
        index == [i \in 1..Len(col) |-> BinIndex(col[i], first2, last2, nbins)]
        hit == Range(index)
    IN  [b \in 1..nbins |->
            IF b - 1 \in hit
            THEN Cardinality({ i \in 1..Len(col) : index[i] = b - 1 })
            ELSE 0]

\* ------------------------------------------------------------- the scatter
species_colors_typo ==
    ("setosa" :> "red") @@ ("versicolour" :> "green") @@ ("virginica" :> "blue")

species_colors ==
    ("setosa" :> "red") @@ ("versicolor" :> "green") @@ ("virginica" :> "blue")

\* dict.get(key, default)
DictGet(d, key, default) == IF key \in DOMAIN d THEN d[key] ELSE default

\* One iteration of the loop: species_data is the species' rows, and the
\* point-set drawn is (species_data[col_x], species_data[col_y]) under the
\* species' label and colour.
ScatterGroup(df, species, x, y) ==
    LET species_data == FilterByCategory(df, species)
        xs == Column(species_data, df, x)
        ys == Column(species_data, df, y)
    IN  [ label  |-> species,
          points |-> [i \in 1..Len(species_data) |-> << xs[i], ys[i] >>],
          color  |-> DictGet(species_colors, species, "gray") ]

\* A loop over the Species column itself instead of its distinct values
ScatterSpeciesAll(df) == SpeciesColumn(df)

\* for species in iris_data["Species"].unique()
ScatterSpecies(df) == Unique(SpeciesColumn(df))

\* ---------------------------------------------------------------- widgets
\* st.selectbox(label, options, index): the session's value for the widget,
\* or options[index] while the user has chosen nothing; None without options.
selectbox(options, index, ui_value) ==
    IF Len(options) = 0 THEN NoValue
    ELSE IF ui_value = NoValue THEN options[index + 1]
    ELSE ui_value

\* options of the species selectbox, were they the closed list of class names
SpeciesOptionsAll(df) == target_names

\* options of the species selectbox: iris_data["Species"].unique()
SpeciesOptions(df) == Unique(SpeciesColumn(df))

\* the Y-axis default, were the index argument left out
YDefaultIndexZero(numeric) == 0

\* index=1 if len(numeric_columns) > 1 else 0
YDefaultIndex(numeric) == IF Len(numeric) > 1 THEN 1 ELSE 0

\* ------------------------------------------------------------------ state
VARIABLES
    resource,              \* what load_iris() returns in this process
    cache,                 \* st.cache_data's entry for load_data: << >> or << df >>
    loadCount,             \* how often the body of load_data has run
    first_data,            \* what the first call of load_data returned
    event,                 \* what caused the last script run
    iris_data,             \* << >> before the first run, then << df >>
    numeric_columns,
    selected_column_hist,
    col_x,
    col_y,
    species_selected,
    hist,                  \* the bin counts drawn by st.pyplot(fig_hist)
    scatter,               \* the point-sets drawn by st.pyplot(fig_scatter)
    species_data,          \* the table handed to st.dataframe
    count,                 \* the number in the "Count:" line
    bins                   \* the bin count of the histogram drawn

vars == << resource, cache, loadCount, first_data, event, iris_data,
           numeric_columns, selected_column_hist, col_x, col_y,
           species_selected, hist, scatter, species_data, count, bins >>

\* ------------------------------------------------------- the script's steps
\* The script's namespace while it runs.  Every run starts from a fresh
\* namespace; only the cache and the widgets' values (ui) outlive a run.
FreshEnv(c, n, ui) ==
    [ cache |-> c, loadCount |-> n, ui |-> ui,
      iris_data |-> << >>, numeric_columns |-> << >>,
      selected_column_hist |-> NoValue, col_x |-> NoValue, col_y |-> NoValue,
      species_selected |-> NoValue,
      hist |-> << >>, scatter |-> << >>, species_data |-> << >>, count |-> 0 ]

\* iris_data = load_data(), under @st.cache_data
LoadStep(e, res) ==
    LET hit == CacheLookup(e.cache)
    IN  IF hit = << >>
        THEN [e EXCEPT !.cache = << load_data(res) >>,
                       !.loadCount = e.loadCount + 1,
                       !.iris_data = << load_data(res) >>]
        ELSE [e EXCEPT !.iris_data = hit]

\* numeric_columns and the three sidebar selectboxes
SidebarStep(e) ==
    LET numeric == select_dtypes_number(e.iris_data[1])
    IN  [e EXCEPT !.numeric_columns = numeric,
                  !.selected_column_hist = selectbox(numeric, 0, e.ui.hist),
                  !.col_x = selectbox(numeric, 0, e.ui.x),
                  !.col_y = selectbox(numeric, YDefaultIndex(numeric), e.ui.y)]

\* st.pyplot of ax_hist.hist(iris_data[selected_column_hist], bins=nbins)
DrawHistogram(e, nbins) ==
    LET df == e.iris_data[1]
    IN  [e EXCEPT !.hist = Histogram(Column(df.rows, df, e.selected_column_hist), nbins)]

\* The histogram drawn over the rows of the species chosen in the detail view
HistStepFiltered(e) ==
    LET df == e.iris_data[1]
        rows == IF e.ui.species = NoValue THEN df.rows
                ELSE FilterByCategory(df, e.ui.species)
    IN  [e EXCEPT !.hist = Histogram(Column(rows, df, e.selected_column_hist), BinCount)]

\* The histogram drawn for the first numeric column whatever the selection
HistStepFirstColumn(e) ==
    [e EXCEPT !.hist =
        DrawHistogram([e EXCEPT !.selected_column_hist = e.numeric_columns[1]],
                      BinCount).hist]

\* The histogram block: bins=20
HistStep(e) == DrawHistogram(e, BinCount)

\* The scatter loop; it leaves the last species' rows in species_data.
ScatterStep(e) ==
    LET df == e.iris_data[1]
        sp == ScatterSpecies(df)
    IN  [e EXCEPT !.scatter = [k \in 1..Len(sp) |-> ScatterGroup(df, sp[k], e.col_x, e.col_y)],
                  !.species_data = IF Len(sp) = 0 THEN e.species_data
                                   ELSE FilterByCategory(df, sp[Len(sp)])]

\* A detail table that shows species_data as it was before these lines
ShowSpeciesStale(e) == [e EXCEPT !.count = Len(e.species_data)]

\* species_data = iris_data[iris_data["Species"] == species_selected],
\* st.dataframe(species_data) and the count line
ShowSpecies(e) ==
    LET df == e.iris_data[1]
    IN  [e EXCEPT !.species_data = FilterByCategory(df, e.species_selected),
                  !.count = Len(FilterByCategory(df, e.species_selected))]

\* The detail view: the species selectbox, then the table and its count
DetailStep(e) ==
    LET df == e.iris_data[1]
    IN  ShowSpecies([e EXCEPT !.species_selected =
                                  selectbox(SpeciesOptions(df), 0, e.ui.species)])

\* One run of the script, top to bottom: each block works on the namespace
\* the blocks before it left.
Script(e, res) ==
    CHOOSE out \in
        { DetailStep(e4) : e4 \in
            { ScatterStep(e3) : e3 \in
                { HistStep(e2) : e2 \in
                    { SidebarStep(e1) : e1 \in { LoadStep(e, res) } } } } } : TRUE

\* ---------------------------------------------------------------- actions
NoUi == [hist |-> NoValue, x |-> NoValue, y |-> NoValue, species |-> NoValue]

CurrentUi ==
    [hist |-> selected_column_hist, x |-> col_x, y |-> col_y,
     species |-> species_selected]

\* A script run under the widget values ui, caused by ev
Rerun(ui, ev) ==
    \E e \in { Script(FreshEnv(cache, loadCount, ui), resource) } :
        /\ cache' = e.cache
        /\ loadCount' = e.loadCount
        /\ first_data' = IF first_data = << >> THEN e.iris_data ELSE first_data
        /\ event' = ev
        /\ iris_data' = e.iris_data
        /\ numeric_columns' = e.numeric_columns
        /\ selected_column_hist' = e.selected_column_hist
        /\ col_x' = e.col_x
        /\ col_y' = e.col_y
        /\ species_selected' = e.species_selected
        /\ hist' = e.hist
        /\ scatter' = e.scatter
        /\ species_data' = e.species_data
        /\ count' = e.count
        /\ UNCHANGED << resource, bins >>

\* A browser session opens (or reloads) the page: every widget is at its default
Connect == Rerun(NoUi, "connect")

\* The user picks another entry of "Select column for histogram:"
SelectHist ==
    /\ event # "start"
    /\ \E v \in Range(numeric_columns) \ {selected_column_hist} :
           Rerun([CurrentUi EXCEPT !.hist = v], "hist")

\* The user picks another entry of "Select X-axis for scatter plot:"
SelectX ==
    /\ event # "start"
    /\ \E v \in Range(numeric_columns) \ {col_x} :
           Rerun([CurrentUi EXCEPT !.x = v], "x")

\* The user picks another entry of "Select Y-axis for scatter plot:"
SelectY ==
    /\ event # "start"
    /\ \E v \in Range(numeric_columns) \ {col_y} :
           Rerun([CurrentUi EXCEPT !.y = v], "y")

\* The user picks another entry of "Select species to view records:"
SelectSpecies ==
    /\ event # "start"
    /\ \E v \in Range(SpeciesOptions(iris_data[1])) \ {species_selected} :
           Rerun([CurrentUi EXCEPT !.species = v], "species")

Blank ==
    /\ cache = << >>
    /\ loadCount = 0
    /\ first_data = << >>
    /\ event = "start"
    /\ iris_data = << >>
    /\ numeric_columns = << >>
    /\ selected_column_hist = NoValue
    /\ col_x = NoValue
    /\ col_y = NoValue
    /\ species_selected = NoValue
    /\ hist = << >>
    /\ scatter = << >>
    /\ species_data = << >>
    /\ count = 0
    /\ bins = BinCount

\* The process has started; no session has run the script yet
Init ==
    /\ resource \in AppResources
    /\ Blank

Next == Connect \/ SelectHist \/ SelectX \/ SelectY \/ SelectSpecies

Spec == Init /\ [][Next]_vars

\* ------------------------------------------ the histogram applied on its own
InitHist ==
    /\ resource \in HistResources
    /\ Blank

\* The histogram block applied to a column f with nbins bins
BuildHistogram ==
    \E df \in { load_data(resource) } :
      \E f \in Range(select_dtypes_number(df)), nbins \in 1..MaxBins :
        \E e \in { DrawHistogram([FreshEnv(cache, loadCount, NoUi) EXCEPT
                                     !.iris_data = << df >>,
                                     !.numeric_columns = select_dtypes_number(df),
                                     !.selected_column_hist = f], nbins) } :
          /\ event' = "buildHistogram"
          /\ iris_data' = e.iris_data
          /\ numeric_columns' = e.numeric_columns
          /\ selected_column_hist' = e.selected_column_hist
          /\ hist' = e.hist
          /\ bins' = nbins
          /\ UNCHANGED << resource, cache, loadCount, first_data, col_x, col_y,
                          species_selected, scatter, species_data, count >>

NextHist == BuildHistogram

SpecHist == InitHist /\ [][NextHist]_vars

\* ------------------------------------- the category filter applied on its own
InitFilter ==
    /\ resource \in FilterResources
    /\ Blank

\* The detail table applied to a category c, present in the dataset or not
FilterCategory ==
    \E df \in { load_data(resource) } :
      \E c \in Range(target_names) :
        \E e \in { ShowSpecies([FreshEnv(cache, loadCount, NoUi) EXCEPT
                                   !.iris_data = << df >>,
                                   !.species_selected = c]) } :
          /\ event' = "filterByCategory"
          /\ iris_data' = e.iris_data
          /\ species_selected' = e.species_selected
          /\ species_data' = e.species_data
          /\ count' = e.count
          /\ UNCHANGED << resource, cache, loadCount, first_data, numeric_columns,
                          selected_column_hist, col_x, col_y, hist, scatter, bins >>

NextFilter == FilterCategory

SpecFilter == InitFilter /\ [][NextFilter]_vars

\* ------------------------------------------------------------------ claims
Ran == event \in {"connect", "hist", "x", "y", "species"}

Rows == iris_data[1].rows

\* the dataset's numeric field names and its category set, read off the dataset
NumericFields == Range(resource.feature_names)

CategorySet == { resource.target_names[resource.target[i] + 1] : i \in DOMAIN resource.target }

FieldPos(name) ==
    CHOOSE j \in DOMAIN resource.feature_names : resource.feature_names[j] = name

\* the rows of category c, as indices into the dataset, and a row's rank among them
RowsOf(c) == { i \in DOMAIN Rows : Rows[i].Species = c }

RankIn(idx, i) == Cardinality({ j \in idx : j <= i })

\* C1: after every script run, whatever the interactions before it, the
\* histogram column and the scatter X and Y columns are numeric field names of
\* the dataset and the species filter is one of the dataset's categories.
C1_SelectionsInDomain ==
    Ran => /\ selected_column_hist \in NumericFields
           /\ col_x \in NumericFields
           /\ col_y \in NumericFields
           /\ species_selected \in CategorySet

C1_Witness ==
    /\ event = "y"
    /\ col_x # resource.feature_names[1]
    /\ selected_column_hist # resource.feature_names[1]
    /\ species_selected = "virginica"

\* C3: over any number of script runs in the process the body of load_data
\* runs at most once, and every call returns the dataset the first call
\* returned.
C3_LoadedOnce ==
    /\ loadCount <= 1
    /\ iris_data = first_data
    /\ (Ran => loadCount = 1 /\ iris_data = << load_data(resource) >>)

C3_Witness ==
    /\ event = "species"
    /\ loadCount = 1
    /\ cache = first_data

InBin(v, b, first2, last2, nbins) ==
    /\ (2 * v - first2) * nbins >= (b - 1) * (last2 - first2)
    /\ \/ (2 * v - first2) * nbins < b * (last2 - first2)
       \/ b = nbins /\ 2 * v = last2

\* C5: for every numeric field and every bin count >= 1 the histogram has one
\* count per bin, each count is the number of rows whose value lies in that
\* equal-width bin, the counts sum to the row count, and every row, those at
\* the maximum included, lies in exactly one bin.
C5_HistogramCountsAllRows ==
    event = "buildHistogram" =>
        LET col == [i \in DOMAIN Rows |-> Rows[i].num[FieldPos(selected_column_hist)]]
        IN  /\ Len(hist) = bins
            /\ SumSeq(hist) = Len(Rows)
            /\ \A b \in 1..bins :
                   hist[b] = Cardinality({ i \in DOMAIN col :
                                InBin(col[i], b, FirstEdge2(col), LastEdge2(col), bins) })
            /\ \A i \in DOMAIN col :
                   Cardinality({ b \in 1..bins :
                       InBin(col[i], b, FirstEdge2(col), LastEdge2(col), bins) }) = 1

C5_Witness ==
    /\ event = "buildHistogram"
    /\ bins = 3
    /\ Len(Rows) = 3
    /\ hist = << 1, 1, 1 >>

\* C6: whatever X and Y are, the point-sets have pairwise different
\* categories, hold as many points in total as the dataset has rows, and each
\* lists the (x, y) pairs of its category's rows in dataset row order.
C6_ScatterPartitions ==
    Ran =>
        /\ \A k, m \in DOMAIN scatter : scatter[k].label = scatter[m].label => k = m
        /\ SumSeq([k \in DOMAIN scatter |-> Len(scatter[k].points)]) = Len(Rows)
        /\ \A k \in DOMAIN scatter :
               LET idx == RowsOf(scatter[k].label)
                   pts == scatter[k].points
               IN  /\ Len(pts) = Cardinality(idx)
                   /\ \A i \in idx :
                          pts[RankIn(idx, i)] = << Rows[i].num[FieldPos(col_x)],
                                                   Rows[i].num[FieldPos(col_y)] >>

C6_Witness ==
    /\ event = "x"
    /\ col_x # col_y
    /\ Len(Rows) = 2
    /\ Len(scatter) = 1
    /\ scatter[1].points[1] # scatter[1].points[2]

\* C7: for every category value the detail table is the ordered sub-sequence
\* of the records of that category and the count is their number; "setosa" on
\* the 150-row dataset gives 50 records, and a category no record has gives an
\* empty table and the count 0.
C7_DetailIsCategoryRows ==
    event = "filterByCategory" =>
        LET idx == RowsOf(species_selected)
        IN  /\ count = Cardinality(idx)
            /\ Len(species_data) = count
            /\ \A i \in idx : species_data[RankIn(idx, i)] = Rows[i]
            /\ (Len(Rows) = IrisRows /\ species_selected = "setosa" => count = IrisPerClass)
            /\ (idx = {} => species_data = << >> /\ count = 0)

C7_Witness ==
    /\ event = "filterByCategory"
    /\ Len(Rows) = IrisRows
    /\ species_selected = "setosa"
    /\ count = IrisPerClass
    /\ \A k \in DOMAIN species_data : species_data[k].Species = "setosa"

\* C8: right after a session opened the page, before any interaction, the
\* histogram and X columns are the first numeric field, the Y column is the
\* second numeric field (the first if there is only one), and the species
\* filter is the first category value of the dataset.
C8_Defaults ==
    event = "connect" =>
        LET fields == resource.feature_names
        IN  /\ selected_column_hist = fields[1]
            /\ col_x = fields[1]
            /\ col_y = IF Len(fields) > 1 THEN fields[2] ELSE fields[1]
            /\ species_selected = Rows[1].Species

C8_Witness ==
    /\ event = "connect"
    /\ Len(resource.feature_names) > 1
    /\ col_y = resource.feature_names[2]
    /\ col_x = resource.feature_names[1]

\* C9: a change of the species filter leaves the histogram and the scatter
\* plot as they were, and a change of the histogram, X or Y selection leaves
\* the detail table and its count as they were.
C9_Frame ==
    [][ /\ event' = "species" => hist' = hist /\ scatter' = scatter
        /\ event' \in {"hist", "x", "y"} => species_data' = species_data /\ count' = count
      ]_vars

C9_Witness ==
    /\ event = "species"
    /\ species_selected # Rows[1].Species
    /\ Len(scatter) > 1

\* C10: every point-set has the colour of its category (setosa red,
\* versicolor green, virginica blue) and none is drawn in the fallback gray.
C10_FixedColors ==
    Ran => \A k \in DOMAIN scatter :
               /\ scatter[k].color # "gray"
               /\ scatter[k].label = "setosa" => scatter[k].color = "red"
               /\ scatter[k].label = "versicolor" => scatter[k].color = "green"
               /\ scatter[k].label = "virginica" => scatter[k].color = "blue"

C10_Witness ==
    /\ Ran
    /\ Len(scatter) = 3
    /\ { scatter[k].color : k \in DOMAIN scatter } = {"red", "green", "blue"}

====
